---- MODULE Spec2Model ----
(***************************************************************************)
(* Model of tinman/handlers/redis.py: RedisRequestHandler.                  *)
(*                                                                         *)
(* A handler instance serves one request.  prepare() is a plain            *)
(* synchronous method (no yield), so it runs to completion on the IOLoop   *)
(* thread and is one atomic step.  Every _redis_<cmd> wrapper is a         *)
(* @gen.engine generator whose whole body is                               *)
(*     yield gen.Task(self._redis_client.<cmd>, args...)                   *)
(* Calling it runs the generator up to the yield (which calls the client   *)
(* method with a callback, i.e. hands the command to the transport) and    *)
(* then returns None to the code that called the wrapper.  The generator   *)
(* is resumed later, when the transport calls the callback.                *)
(***************************************************************************)
EXTENDS Integers, Sequences, FiniteSets, TLC

\* ---------------------------------------------------------------- bounds
NumHandlers == 3
MaxInvs == 2
\* invocations in a behaviour that uses the session commands
MaxSurfaceInvs == 3
\* times the owner of a scope replaces a stored handle
MaxReplace == 1

Handlers == 1..NumHandlers

\* ------------------------------------------------------ program constants
REDIS_CLIENT == "redis"
REDIS_HOST == "localhost"
REDIS_PORT == 6379
REDIS_DB == 0

\* ------------------------------------------------------------ input sets
Scopes == {"app1", "app2"}
\* REDIS_CLIENT of the handler class: the default, or a subclass override
Names == {REDIS_CLIENT, "cache"}
Hosts == {REDIS_HOST, "10.0.0.5"}
Ports == {REDIS_PORT, 6380}
Dbs == {REDIS_DB, 1}
SettingKeys == {"host", "port", "db"}
Keys == {"k"}
Vals == {"v1", "v2"}
Causes == {"timeout", "disconnect", "protocol"}

\* Python None: as a handle (handles are numbered from 1) and as a value
NoneHandle == 0
None == "None"

\* dict.get(key, default)
Get(d, k, default) == IF k \in DOMAIN d THEN d[k] ELSE default

EmptyDict == [k \in {} |-> None]

\* every 'redis' settings section: any subset of host/port/db supplied
RedisSections ==
    { [k \in D |-> IF k = "host" THEN hp[1] ELSE IF k = "port" THEN hp[2] ELSE hp[3]] :
        D \in SUBSET SettingKeys, hp \in Hosts \X Ports \X Dbs }

\* every application.settings mapping: with or without a 'redis' section
AllSettings == {EmptyDict} \cup { [k \in {"redis"} |-> sec] : sec \in RedisSections }

VARIABLES
    settings,   \* settings[s]: application.settings of scope s
    handler,    \* handler[h]: self.application and the class's REDIS_CLIENT of handler h
    tinman,     \* tinman[s]: attributes set on application.tinman (name -> handle)
    pc,         \* pc[h]: where the request of handler h is
    seen,       \* seen[h]: self._redis_client as read at the end of prepare()
    attempts,   \* attempts[h]: calls of _connect_to_redis made by handler h
    clients,    \* clients[c]: the c-th tornadoredis.Client constructed
    transport,  \* transport[c]: what the transport of client c was handed
    invs,       \* invs[i]: the i-th wrapper invocation, in the order of the calls;
                \* .delivered is what the generator is resumed with, .got is what
                \* the code that called the wrapper gets from the call
    session,    \* session[c]: the server's state for the connection of client c:
                \* .open is the multi that opened the transaction (0: none),
                \* .queue the commands queued in it
    store,      \* store[t][k]: the contents of the backing store at target t
    writer,     \* writer[t][k]: the invocation whose set wrote store[t][k] (0: none)
    stored      \* every <<scope, name, handle>> ever set on a scope

vars == <<settings, handler, tinman, pc, seen, attempts, clients, transport,
          invs, session, store, writer, stored>>

\* ------------------------------------------------- RedisRequestHandler

\* (mutant) the presence test looks at the application, not at application.tinman
HasRedisClient_OnApplication(h) == handler[h].name \in DOMAIN settings[handler[h].app]

\* _has_redis_client: hasattr(self.application.tinman, self.REDIS_CLIENT)
HasRedisClient(h) == handler[h].name \in DOMAIN tinman[handler[h].app]

\* _redis_client: getattr(self.application.tinman, self.REDIS_CLIENT, None)
RedisClientOf(tm, h) == Get(tm[handler[h].app], handler[h].name, NoneHandle)
\* (mutant) the handle read at the end of prepare() is kept on the instance
RedisClient_Cached(h) ==
    IF seen[h] # NoneHandle THEN seen[h] ELSE RedisClientOf(tinman, h)
RedisClient(h) == RedisClientOf(tinman, h)

\* _redis_settings: self.application.settings.get('redis', dict())
RedisSettings(st) == Get(st, "redis", EmptyDict)

\* (mutant) a missing db takes the default of the port
RedisConnectionSettings_DbFromPort(st) ==
    [host        |-> Get(RedisSettings(st), "host", REDIS_HOST),
     port        |-> Get(RedisSettings(st), "port", REDIS_PORT),
     selected_db |-> Get(RedisSettings(st), "db", REDIS_PORT)]

\* _redis_connection_settings
RedisConnectionSettings(st) ==
    [host        |-> Get(RedisSettings(st), "host", REDIS_HOST),
     port        |-> Get(RedisSettings(st), "port", REDIS_PORT),
     selected_db |-> Get(RedisSettings(st), "db", REDIS_DB)]

\* _connect_to_redis: tornadoredis.Client(**self._redis_connection_settings);
\* the new client is the next one in construction order (app and name record
\* which handler class constructed it)
ConnectToRedis(h) ==
    [host        |-> RedisConnectionSettings(settings[handler[h].app]).host,
     port        |-> RedisConnectionSettings(settings[handler[h].app]).port,
     selected_db |-> RedisConnectionSettings(settings[handler[h].app]).selected_db,
     app         |-> handler[h].app,
     name        |-> handler[h].name]

\* (mutant) the client is kept on the handler instance, the scope is not written
SetRedisClient_OnSelf(tm, h, c) == tm

\* (mutant) the attributes of the scope are replaced by the one being set
SetRedisClient_Clobbers(tm, h, c) ==
    [tm EXCEPT ![handler[h].app] = [n \in {handler[h].name} |-> c]]

\* _set_redis_client: setattr(self.application.tinman, self.REDIS_CLIENT, client)
SetRedisClient(tm, h, c) ==
    [tm EXCEPT ![handler[h].app] =
        [n \in DOMAIN tm[handler[h].app] \cup {handler[h].name} |->
            IF n = handler[h].name THEN c ELSE tm[handler[h].app][n]]]

\* prepare(), when no client has to be made or the constructor returns
PrepareOk(h) ==
    /\ pc[h] = "new"
    /\ IF ~HasRedisClient(h)
       THEN /\ clients' = Append(clients, ConnectToRedis(h))
            /\ transport' = Append(transport, [wire |-> <<>>])
            /\ session' = Append(session, [open |-> 0, queue |-> <<>>])
            /\ tinman' = SetRedisClient(tinman, h, Len(clients) + 1)
            /\ stored' = stored \cup {<<handler[h].app, handler[h].name, Len(clients) + 1>>}
            /\ attempts' = [attempts EXCEPT ![h] = @ + 1]
       ELSE UNCHANGED <<clients, transport, session, tinman, stored, attempts>>
    /\ seen' = [seen EXCEPT ![h] = RedisClientOf(tinman', h)]
    /\ pc' = [pc EXCEPT ![h] = "ready"]
    /\ UNCHANGED <<settings, handler, invs, store, writer>>

\* (mutant) a placeholder is stored before the constructor is called
PrepareRaise_StoresPartial(h) ==
    /\ pc[h] = "new"
    /\ ~HasRedisClient(h)
    /\ tinman' = SetRedisClient(tinman, h, NoneHandle)
    /\ attempts' = [attempts EXCEPT ![h] = @ + 1]
    /\ pc' = [pc EXCEPT ![h] = "prepare_failed"]
    /\ UNCHANGED <<settings, handler, seen, clients, transport, invs,
                   session, store, writer, stored>>

\* prepare(), when tornadoredis.Client(...) raises: the exception leaves
\* prepare() at line 27 before _set_redis_client is called
PrepareRaise(h) ==
    /\ pc[h] = "new"
    /\ ~HasRedisClient(h)
    /\ attempts' = [attempts EXCEPT ![h] = @ + 1]
    /\ pc' = [pc EXCEPT ![h] = "prepare_failed"]
    /\ UNCHANGED <<settings, handler, tinman, seen, clients, transport, invs,
                   session, store, writer, stored>>

\* ------------------------------------------------------------ transport

\* the server and database a client talks to
Target(c) == [host        |-> clients[c].host,
              port        |-> clients[c].port,
              selected_db |-> clients[c].selected_db]
\* the servers and databases the applications are configured for
Targets == {RedisConnectionSettings(settings[s]) : s \in Scopes}

\* the commands of the wrappers _redis_set(key, value) and _redis_get(key)
Commands == [op : {"set"}, key : Keys, val : Vals] \cup [op : {"get"}, key : Keys, val : {None}]

\* a wider part of the command surface: set, get, sort and the session commands
SurfaceCommands ==
    [op : {"set"}, key : Keys, val : {"v1"}]
        \cup [op : {"get", "sort"}, key : Keys, val : {None}]
        \cup [op : {"multi", "execute", "discard"}, key : {None}, val : {None}]

\* the parameters of a wrapper, in the order of its def line
Params(op) ==
    CASE op = "set"  -> <<"key", "value">>
      [] op = "get"  -> <<"key">>
      [] op = "sort" -> <<"key", "start", "num", "by", "get", "desc", "alpha", "store">>
      [] OTHER       -> <<>>

\* the arguments a caller passes for a command, by parameter; sort is called as
\* _redis_sort(key, 0, 10, 'w_*', '#', True, False)
Bind(cmd) ==
    CASE cmd.op = "set"  -> [p \in {"key", "value"} |->
                                IF p = "key" THEN cmd.key ELSE cmd.val]
      [] cmd.op = "get"  -> [p \in {"key"} |-> cmd.key]
      [] cmd.op = "sort" -> [p \in {"key", "start", "num", "by", "get", "desc", "alpha", "store"} |->
                                CASE p = "key"   -> cmd.key
                                  [] p = "start" -> "0"
                                  [] p = "num"   -> "10"
                                  [] p = "by"    -> "w_*"
                                  [] p = "get"   -> "#"
                                  [] p = "desc"  -> "True"
                                  [] p = "alpha" -> "False"
                                  [] OTHER       -> None]
      [] OTHER           -> EmptyDict

\* (mutant) the first two arguments of the call change places
TaskArgs_Swapped(op) ==
    CASE op = "set"  -> <<"value", "key">>
      [] op = "get"  -> <<"key">>
      [] op = "sort" -> <<"start", "key", "num", "by", "get", "desc", "alpha", "store">>
      [] OTHER       -> <<>>

\* the names passed after the client method in the wrapper's gen.Task(...) line
TaskArgs(op) ==
    CASE op = "set"  -> <<"key", "value">>
      [] op = "get"  -> <<"key">>
      [] op = "sort" -> <<"key", "start", "num", "by", "get", "desc", "alpha", "store">>
      [] OTHER       -> <<>>

\* the client method named in the wrapper's gen.Task(...) line
TaskMethod(op) == op

\* the call the wrapper makes on the handle: gen.Task(self._redis_client.<m>, a1, ...)
TaskCall(cmd) ==
    [method |-> TaskMethod(cmd.op),
     args   |-> [i \in 1..Len(TaskArgs(cmd.op)) |-> Bind(cmd)[TaskArgs(cmd.op)[i]]]]

\* commands handed to client c that the transport has not answered, oldest first
IsDispatched(i) == invs[i].state = "Dispatched"
Pending(c) == SelectSeq(transport[c].wire, IsDispatched)

\* the backing store executing one command: the new contents and the reply
ExecStore(db, cmd) ==
    IF cmd.op = "set" THEN [db EXCEPT ![cmd.key] = cmd.val] ELSE db
ExecReply(db, cmd) ==
    CASE cmd.op = "set"  -> "OK"
      [] cmd.op = "get"  -> db[cmd.key]
      [] cmd.op = "sort" -> IF db[cmd.key] = None THEN "[]" ELSE "WRONGTYPE"
      [] OTHER           -> "ERR"
ExecWriter(w, cmd, i) ==
    IF cmd.op = "set" THEN [w EXCEPT ![cmd.key] = i] ELSE w

\* the backing store executing the queued commands q of a transaction, in order
RECURSIVE ExecQueue(_, _)
ExecQueue(db, q) ==
    IF q = <<>> THEN db ELSE ExecQueue(ExecStore(db, invs[Head(q)].cmd), Tail(q))
RECURSIVE ExecQueueWriter(_, _)
ExecQueueWriter(w, q) ==
    IF q = <<>> THEN w ELSE ExecQueueWriter(ExecWriter(w, invs[Head(q)].cmd, Head(q)), Tail(q))

IsSessionCommand(cmd) == cmd.op \in {"multi", "execute", "discard"}

\* the server's session state for a connection after it processed invocation i:
\* multi opens a transaction unless one is open, execute and discard close the
\* open one, any other command is queued while one is open
SessionAfter(ses, i) ==
    CASE invs[i].cmd.op = "multi" ->
            IF ses.open = 0 THEN [open |-> i, queue |-> <<>>] ELSE ses
      [] invs[i].cmd.op \in {"execute", "discard"} -> [open |-> 0, queue |-> <<>>]
      [] OTHER ->
            IF ses.open = 0 THEN ses ELSE [ses EXCEPT !.queue = Append(@, i)]

\* the server's reply to invocation i on a connection in session state ses
SessionReply(ses, db, i) ==
    CASE invs[i].cmd.op = "multi"   -> IF ses.open = 0 THEN "OK" ELSE "ERR"
      [] invs[i].cmd.op = "execute" -> IF ses.open = 0 THEN "ERR" ELSE "EXEC"
      [] invs[i].cmd.op = "discard" -> IF ses.open = 0 THEN "ERR" ELSE "OK"
      [] OTHER -> IF ses.open = 0 THEN ExecReply(db, invs[i].cmd) ELSE "QUEUED"

\* the store after the server processed invocation i
SessionStore(ses, db, i) ==
    CASE invs[i].cmd.op = "execute" -> ExecQueue(db, ses.queue)
      [] IsSessionCommand(invs[i].cmd) -> db
      [] OTHER -> IF ses.open = 0 THEN ExecStore(db, invs[i].cmd) ELSE db
SessionWriter(ses, w, i) ==
    CASE invs[i].cmd.op = "execute" -> ExecQueueWriter(w, ses.queue)
      [] IsSessionCommand(invs[i].cmd) -> w
      [] OTHER -> IF ses.open = 0 THEN ExecWriter(w, invs[i].cmd, i) ELSE w

\* ------------------------------------------------------ command wrappers

\* @gen.engine: the decorated function returns None to the code calling it
EngineReturn == None

\* (mutant) the command is put in front of the commands already handed over
Dispatch_InFront(wire, i) == <<i>> \o wire

\* gen.Task(self._redis_client.<cmd>, args...).start(): the client method is
\* called with the callback, which hands the command to the client's transport
Dispatch(wire, i) == Append(wire, i)

\* (mutant) the call holds the worker: it is made only when no command of any
\* request is unanswered
Invoke_Blocking(h, cmd) ==
    /\ pc[h] \in {"new", "ready"}
    /\ RedisClient(h) # NoneHandle
    /\ \A i \in DOMAIN invs : invs[i].state # "Dispatched"
    /\ invs' = Append(invs, [caller    |-> h,
                             handle    |-> RedisClient(h),
                             cmd       |-> cmd,
                             sent      |-> TaskCall(cmd),
                             state     |-> "Dispatched",
                             delivered |-> None,
                             src       |-> 0,
                             txn       |-> 0,
                             got       |-> [value |-> EngineReturn,
                                            error |-> None,
                                            cause |-> None]])
    /\ transport' = [transport EXCEPT ![RedisClient(h)].wire =
                        Dispatch(@, Len(invs) + 1)]
    /\ UNCHANGED <<settings, handler, tinman, pc, seen, attempts, clients,
                   session, store, writer, stored>>

\* self._redis_<cmd>(args...) called by the request code of handler h while a
\* handle is stored: the generator runs up to the yield, then the call returns
Invoke(h, cmd) ==
    /\ pc[h] \in {"new", "ready"}
    /\ RedisClient(h) # NoneHandle
    /\ invs' = Append(invs, [caller    |-> h,
                             handle    |-> RedisClient(h),
                             cmd       |-> cmd,
                             sent      |-> TaskCall(cmd),
                             state     |-> "Dispatched",
                             delivered |-> None,
                             src       |-> 0,
                             txn       |-> 0,
                             got       |-> [value |-> EngineReturn,
                                            error |-> None,
                                            cause |-> None]])
    /\ transport' = [transport EXCEPT ![RedisClient(h)].wire =
                        Dispatch(@, Len(invs) + 1)]
    /\ UNCHANGED <<settings, handler, tinman, pc, seen, attempts, clients,
                   session, store, writer, stored>>

CallWrapper(h, cmd) ==
    /\ Len(invs) < MaxInvs
    /\ Invoke(h, cmd)

\* (mutant) the wrapper connects when it finds no handle, then dispatches
InvokeNoClient_Connects(h, cmd) ==
    /\ pc[h] \in {"new", "ready"}
    /\ RedisClient(h) = NoneHandle
    /\ clients' = Append(clients, ConnectToRedis(h))
    /\ transport' = Append(transport, [wire |-> <<Len(invs) + 1>>])
    /\ session' = Append(session, [open |-> 0, queue |-> <<>>])
    /\ tinman' = SetRedisClient(tinman, h, Len(clients) + 1)
    /\ stored' = stored \cup {<<handler[h].app, handler[h].name, Len(clients) + 1>>}
    /\ invs' = Append(invs, [caller    |-> h,
                             handle    |-> Len(clients) + 1,
                             cmd       |-> cmd,
                             sent      |-> TaskCall(cmd),
                             state     |-> "Dispatched",
                             delivered |-> None,
                             src       |-> 0,
                             txn       |-> 0,
                             got       |-> [value |-> EngineReturn,
                                            error |-> None,
                                            cause |-> None]])
    /\ UNCHANGED <<settings, handler, pc, seen, attempts, store, writer>>

\* the same call while no handle is stored: self._redis_client is None, so
\* evaluating self._redis_client.<cmd> raises AttributeError in the generator
\* before any client method is called; the exception reaches the caller
InvokeNoClient(h, cmd) ==
    /\ pc[h] \in {"new", "ready"}
    /\ RedisClient(h) = NoneHandle
    /\ invs' = Append(invs, [caller    |-> h,
                             handle    |-> NoneHandle,
                             cmd       |-> cmd,
                             sent      |-> [method |-> None, args |-> <<>>],
                             state     |-> "Created",
                             delivered |-> None,
                             src       |-> 0,
                             txn       |-> 0,
                             got       |-> [value |-> None,
                                            error |-> "AttributeError",
                                            cause |-> None]])
    /\ pc' = [pc EXCEPT ![h] = "error"]
    /\ UNCHANGED <<settings, handler, tinman, seen, attempts, clients,
                   transport, session, store, writer, stored>>

CallWrapperNoClient(h, cmd) ==
    /\ Len(invs) < MaxInvs
    /\ InvokeNoClient(h, cmd)

\* the transport of client c answers its oldest unanswered command: the server
\* processes it in the connection's session, the callback resumes the
\* generator at the yield with the reply, and the generator ends; the value of
\* the yield expression is not used
Reply(c) ==
    /\ Pending(c) # <<>>
    /\ LET i == Head(Pending(c))
           t == Target(c)
           ses == session[c]
           plain == ses.open = 0 /\ ~IsSessionCommand(invs[i].cmd)
       IN /\ invs' = [invs EXCEPT ![i].state = "Completed",
                                  ![i].delivered = SessionReply(ses, store[t], i),
                                  ![i].src = IF plain THEN writer[t][invs[i].cmd.key] ELSE 0,
                                  ![i].txn = IF ses.open # 0 THEN ses.open ELSE 0]
          /\ session' = [session EXCEPT ![c] = SessionAfter(ses, i)]
          /\ store' = [store EXCEPT ![t] = SessionStore(ses, @, i)]
          /\ writer' = [writer EXCEPT ![t] = SessionWriter(ses, @, i)]
    /\ UNCHANGED <<settings, handler, tinman, pc, seen, attempts, clients,
                   transport, stored>>

\* (mutant) on a failure the command is handed to the transport again
Fail_Retries(c, cause) ==
    /\ Pending(c) # <<>>
    /\ transport' = [transport EXCEPT ![c].wire = Append(@, Head(Pending(c)))]
    /\ UNCHANGED <<settings, handler, tinman, pc, seen, attempts, clients,
                   invs, session, store, writer, stored>>

\* the transport of client c reports that its oldest unanswered command
\* failed (timeout, disconnect, protocol error): the exception is thrown into
\* the generator at the yield, which has no try/except, so it leaves the
\* generator as it is; the wrapper issues nothing again
Fail(c, cause) ==
    /\ Pending(c) # <<>>
    /\ LET i == Head(Pending(c))
       IN invs' = [invs EXCEPT ![i].state = "Failed",
                               ![i].delivered = cause]
    /\ UNCHANGED <<settings, handler, tinman, pc, seen, attempts, clients,
                   transport, session, store, writer, stored>>

\* the request code of handler h returns; nothing makes it wait for commands
Finish(h) ==
    /\ pc[h] = "ready"
    /\ pc' = [pc EXCEPT ![h] = "finished"]
    /\ UNCHANGED <<settings, handler, tinman, seen, attempts, clients,
                   transport, invs, session, store, writer, stored>>

\* ------------------------------------------------------- specifications

\* the settings of the two applications of the behavioural specification
DeploySettings ==
    [s \in Scopes |->
        IF s = "app1" THEN EmptyDict
        ELSE [k \in {"redis"} |-> [f \in {"host", "db"} |->
                                     IF f = "host" THEN "10.0.0.5" ELSE 1]]]

\* the requests served: two handlers of the default class on app1, the others
\* of any class (default REDIS_CLIENT or overridden) on any application
InitRest ==
    /\ handler \in [Handlers -> [app : Scopes, name : Names]]
    /\ \A h \in Handlers : h <= 2 => handler[h] = [app |-> "app1", name |-> REDIS_CLIENT]
    /\ tinman = [s \in Scopes |-> EmptyDict]
    /\ pc = [h \in Handlers |-> "new"]
    /\ seen = [h \in Handlers |-> NoneHandle]
    /\ attempts = [h \in Handlers |-> 0]
    /\ clients = <<>>
    /\ transport = <<>>
    /\ invs = <<>>
    /\ session = <<>>
    /\ store = [t \in Targets |-> [k \in Keys |-> None]]
    /\ writer = [t \in Targets |-> [k \in Keys |-> 0]]
    /\ stored = {}

Init ==
    /\ settings = DeploySettings
    /\ InitRest

Next ==
    \/ \E h \in Handlers : PrepareOk(h)
    \/ \E h \in Handlers : PrepareRaise(h)
    \/ \E h \in Handlers, cmd \in Commands : CallWrapper(h, cmd)
    \/ \E h \in Handlers, cmd \in Commands : CallWrapperNoClient(h, cmd)
    \/ \E c \in DOMAIN clients : Reply(c)
    \/ \E c \in DOMAIN clients, cause \in Causes : Fail(c, cause)
    \/ \E h \in Handlers : Finish(h)

Spec == Init /\ [][Next]_vars

\* the session commands on a shared handle: every request is served by a
\* handler of the default class on app1, and calls set, get, sort, multi,
\* execute and discard
CallSurface(h, cmd) ==
    /\ Len(invs) < MaxSurfaceInvs
    /\ Invoke(h, cmd)

CallSurfaceNoClient(h, cmd) ==
    /\ Len(invs) < MaxSurfaceInvs
    /\ InvokeNoClient(h, cmd)

InitSurface ==
    /\ settings = DeploySettings
    /\ InitRest
    /\ \A h \in Handlers : handler[h] = [app |-> "app1", name |-> REDIS_CLIENT]

NextSurface ==
    \/ \E h \in Handlers : PrepareOk(h)
    \/ \E h \in Handlers, cmd \in SurfaceCommands : CallSurface(h, cmd)
    \/ \E h \in Handlers, cmd \in SurfaceCommands : CallSurfaceNoClient(h, cmd)
    \/ \E c \in DOMAIN clients : Reply(c)

SpecSurface == InitSurface /\ [][NextSurface]_vars

\* the owner of scope s (the application's client registry, which is not part
\* of this file) replaces the handle stored under name n by a new client for
\* the same server and database
Replace(s, n) ==
    /\ n \in DOMAIN tinman[s]
    /\ Cardinality({t \in stored : t[1] = s /\ t[2] = n}) <= MaxReplace
    /\ clients' = Append(clients, clients[tinman[s][n]])
    /\ transport' = Append(transport, [wire |-> <<>>])
    /\ session' = Append(session, [open |-> 0, queue |-> <<>>])
    /\ tinman' = [tinman EXCEPT ![s][n] = Len(clients) + 1]
    /\ stored' = stored \cup {<<s, n, Len(clients) + 1>>}
    /\ UNCHANGED <<settings, handler, pc, seen, attempts, invs, store, writer>>

\* requests on a scope whose handle is replaced while they are served
NextReplace ==
    \/ \E h \in Handlers : PrepareOk(h)
    \/ \E h \in Handlers, cmd \in Commands : CallWrapper(h, cmd)
    \/ \E h \in Handlers, cmd \in Commands : CallWrapperNoClient(h, cmd)
    \/ \E c \in DOMAIN clients : Reply(c)
    \/ \E s \in Scopes, n \in Names : Replace(s, n)

SpecReplace == Init /\ [][NextReplace]_vars

\* configuration resolution: every settings mapping, prepare() only
InitSettings ==
    /\ settings \in [Scopes -> AllSettings]
    /\ InitRest

NextSettings ==
    \/ \E h \in Handlers : PrepareOk(h)
    \/ \E h \in Handlers : PrepareRaise(h)

SpecSettings == InitSettings /\ [][NextSettings]_vars

\* ----------------------------------------------------------------- claims

\* clients constructed by _connect_to_redis for scope s and service name n
ClientsOf(s, n) == {c \in DOMAIN clients : clients[c].app = s /\ clients[c].name = n}
\* handles ever set on scope s under name n
StoredOf(s, n) == {t \in stored : t[1] = s /\ t[2] = n}
\* prepare() of handler h has returned normally
Prepared(h) == pc[h] \in {"ready", "finished"}
\* the scope of handler h holds an attribute under the handler's service name
Holds(h) == handler[h].name \in DOMAIN tinman[handler[h].app]
\* this step is prepare() of handler h, returning or raising
PrepareStep(h) == pc[h] = "new" /\ pc'[h] \in {"ready", "prepare_failed"}

\* C1: for every scope and service name, whatever prepare() calls handlers
\* sharing the scope make, _connect_to_redis constructs at most one client and
\* at most one handle is ever stored under that name on the scope.
C1_AtMostOneHandle ==
    \A s \in Scopes, n \in Names :
        /\ Cardinality(ClientsOf(s, n)) <= 1
        /\ Cardinality(StoredOf(s, n)) <= 1

C1_Witness ==
    \E h1, h2 \in Handlers :
        /\ h1 # h2
        /\ handler[h1] = handler[h2]
        /\ Prepared(h1) /\ Prepared(h2)
        /\ Cardinality(ClientsOf(handler[h1].app, handler[h1].name)) = 1

\* C2: when two handlers race prepare() on a scope holding no handle, exactly
\* one handle is constructed and both read the same handle through
\* _redis_client afterwards.
C2_RaceOneHandle ==
    \A h1, h2 \in Handlers :
        (h1 # h2 /\ handler[h1] = handler[h2] /\ Prepared(h1) /\ Prepared(h2)) =>
            /\ Cardinality(ClientsOf(handler[h1].app, handler[h1].name)) = 1
            /\ RedisClient(h1) \in ClientsOf(handler[h1].app, handler[h1].name)
            /\ RedisClient(h2) = RedisClient(h1)
            /\ seen[h1] = RedisClient(h1)
            /\ seen[h2] = RedisClient(h1)

C2_Witness ==
    \E h1, h2 \in Handlers :
        /\ h1 # h2
        /\ handler[h1] = handler[h2]
        /\ pc[h1] = "ready" /\ pc[h2] = "ready"
        /\ attempts[h1] + attempts[h2] = 1
        /\ seen[h1] = seen[h2] /\ seen[h1] # NoneHandle

\* C3: prepare() on a scope that already holds a handle under the service name
\* constructs nothing, leaves the scope as it is, and reads afterwards the
\* handle that was there before, whichever handler instance calls it.
C3_PrepareIsRead ==
    [][\A h \in Handlers :
        (PrepareStep(h) /\ Holds(h)) =>
            /\ clients' = clients
            /\ tinman' = tinman
            /\ stored' = stored
            /\ attempts'[h] = attempts[h]
            /\ pc'[h] = "ready"
            /\ seen'[h] = RedisClient(h)
            /\ RedisClientOf(tinman', h) = RedisClient(h)]_vars

C3_Witness ==
    \E h \in Handlers :
        /\ pc[h] = "ready"
        /\ attempts[h] = 0
        /\ seen[h] # NoneHandle
        /\ \E g \in Handlers : g # h /\ attempts[g] = 1 /\ handler[g] = handler[h]

\* C4: when the construction of the client raises during prepare(), nothing is
\* stored on the scope, which still reports no handle; every prepare() that
\* finds no handle makes exactly one construction attempt, so the next call
\* tries afresh and no call tries twice.
C4_FailedConstruction ==
    [][\A h \in Handlers :
        (PrepareStep(h) /\ ~Holds(h)) =>
            /\ attempts' = [attempts EXCEPT ![h] = 1]
            /\ pc'[h] = "prepare_failed" =>
                  /\ tinman' = tinman
                  /\ stored' = stored
                  /\ clients' = clients
                  /\ handler[h].name \notin DOMAIN tinman'[handler[h].app]
                  /\ RedisClientOf(tinman', h) = NoneHandle]_vars

C4_Witness ==
    \E h1, h2 \in Handlers :
        /\ h1 # h2
        /\ handler[h1] = handler[h2]
        /\ pc[h1] = "prepare_failed" /\ attempts[h1] = 1
        /\ pc[h2] = "ready" /\ attempts[h2] = 1

\* C5: for every settings mapping, with or without a 'redis' section, the
\* constructed client gets host, port and db from the mapping where the key is
\* supplied and 'localhost', 6379 and 0 where it is not.
C5_SettingsResolved ==
    \A c \in DOMAIN clients :
        LET st == settings[clients[c].app]
            supplied(f) == "redis" \in DOMAIN st /\ f \in DOMAIN st["redis"]
        IN /\ clients[c].host = IF supplied("host") THEN st["redis"]["host"] ELSE "localhost"
           /\ clients[c].port = IF supplied("port") THEN st["redis"]["port"] ELSE 6379
           /\ clients[c].selected_db = IF supplied("db") THEN st["redis"]["db"] ELSE 0

C5_Witness ==
    \E c \in DOMAIN clients :
        LET st == settings[clients[c].app]
        IN /\ "redis" \in DOMAIN st
           /\ DOMAIN st["redis"] = {"port"}
           /\ clients[c].port = 6380
           /\ clients[c].host = "localhost"
           /\ clients[c].selected_db = 0

\* C6: when the transport completes a dispatched command, the code that called
\* the wrapper gets the reply value the transport reported for it.
C6_CallerGetsReply ==
    \A i \in DOMAIN invs :
        invs[i].state = "Completed" =>
            /\ invs[i].got.error = None
            /\ invs[i].got.value = invs[i].delivered

\* C7: a caller that issues set(k, v) and then get(k) on the same scope, with
\* no other write to k in between, gets v from the get.
C7_SetGetRoundTrip ==
    \A i, j \in DOMAIN invs :
        ( /\ i < j
          /\ invs[i].caller = invs[j].caller
          /\ invs[i].handle = invs[j].handle
          /\ invs[i].cmd.op = "set"
          /\ invs[j].cmd.op = "get"
          /\ invs[i].cmd.key = invs[j].cmd.key
          /\ invs[j].state = "Completed"
          /\ invs[j].src = i ) =>
            invs[j].got.value = invs[i].cmd.val

\* C8: the caller of a wrapper takes no further step between the dispatch of the
\* command and the transport's reply to it: while the command is unanswered
\* the caller neither calls another wrapper nor returns.
C8_CallerSuspended ==
    \A i \in DOMAIN invs :
        invs[i].state = "Dispatched" =>
            /\ pc[invs[i].caller] # "finished"
            /\ \A j \in DOMAIN invs : j > i => invs[j].caller # invs[i].caller

C10_CommandErrorToCaller ==
    \A i \in DOMAIN invs :
        invs[i].state = "Failed" =>
            /\ invs[i].got.error = "CommandError"
            /\ invs[i].got.cause = invs[i].delivered

\* this step is a wrapper call made by handler h
WrapperStep(h) == Len(invs') = Len(invs) + 1 /\ invs'[Len(invs')].caller = h

\* C11 (as claimed): a handle is constructed only once a command wrapper has
\* been invoked on its scope, and a wrapper invoked while no handle is stored
\* gets one constructed and stored and has its command dispatched.
C11_LazyOnFirstCommand ==
    /\ \A c \in DOMAIN clients :
          \E i \in DOMAIN invs :
              /\ handler[invs[i].caller].app = clients[c].app
              /\ handler[invs[i].caller].name = clients[c].name
    /\ \A i \in DOMAIN invs :
          /\ invs[i].handle # NoneHandle
          /\ invs[i].state # "Created"

\* C11 (amended): the handle is created lazily by the first prepare() that finds
\* no attribute under the service name: only such a prepare() constructs a
\* client, which it stores on the scope; a command wrapper invoked while no
\* handle is stored constructs and stores nothing and dispatches nothing, it
\* raises AttributeError to its caller.
C11_LazyOnPrepare ==
    [][ /\ clients' # clients =>
              \E h \in Handlers :
                  /\ PrepareStep(h) /\ ~Holds(h) /\ pc'[h] = "ready"
                  /\ Len(clients') = Len(clients) + 1
                  /\ clients'[Len(clients')].app = handler[h].app
                  /\ clients'[Len(clients')].name = handler[h].name
                  /\ handler[h].name \in DOMAIN tinman'[handler[h].app]
                  /\ tinman'[handler[h].app][handler[h].name] = Len(clients')
        /\ \A h \in Handlers :
              (WrapperStep(h) /\ ~Holds(h)) =>
                  /\ clients' = clients
                  /\ tinman' = tinman
                  /\ transport' = transport
                  /\ invs'[Len(invs')].state = "Created"
                  /\ invs'[Len(invs')].got.error = "AttributeError" ]_vars

C11_Witness ==
    /\ \E i \in DOMAIN invs :
          /\ invs[i].state = "Created"
          /\ ~Holds(invs[i].caller)
          /\ ClientsOf(handler[invs[i].caller].app, handler[invs[i].caller].name) = {}
    /\ \E c \in DOMAIN clients : transport[c].wire = <<>>

\* the transport answers invocation j now
Answers(j) == Reply(invs[j].handle) /\ invs'[j].state = "Completed"
\* no command handed to the handle of j before j is unanswered
NothingAhead(j) ==
    \A k \in DOMAIN invs :
        (k < j /\ invs[k].handle = invs[j].handle) => invs[k].state # "Dispatched"

TimesDispatched(tr, i) ==
    Cardinality(UNION { {<<c, p>> : p \in {q \in DOMAIN tr[c].wire : tr[c].wire[q] = i}} :
                            c \in DOMAIN tr })

\* C16 (as claimed): an invocation is Created, Dispatched, Completed or Failed,
\* is dispatched at most once, and ends (with a value or with an error) only
\* as Completed or Failed, which it reaches from Dispatched.
C16_StateMachine ==
    \A i \in DOMAIN invs :
        /\ invs[i].state \in {"Created", "Dispatched", "Completed", "Failed"}
        /\ TimesDispatched(transport, i) <= 1
        /\ invs[i].state \in {"Completed", "Failed"} => TimesDispatched(transport, i) = 1
        /\ invs[i].got.error # None => invs[i].state = "Failed"

\* C16 (amended): an invocation made while a handle is stored follows
\* Created -> Dispatched -> Completed | Failed: it is dispatched exactly once,
\* leaves Dispatched only for Completed or Failed, and does not change after
\* that; an invocation made while no handle is stored is never dispatched, it
\* ends in Created by raising AttributeError to its caller.
C16_Lifecycle ==
    [][\A i \in DOMAIN invs' :
        /\ invs'[i].state \in {"Created", "Dispatched", "Completed", "Failed"}
        /\ TimesDispatched(transport', i) = IF invs'[i].state = "Created" THEN 0 ELSE 1
        /\ IF i \in DOMAIN invs
           THEN \/ invs'[i] = invs[i]
                \/ /\ invs[i].state = "Dispatched"
                   /\ invs'[i].state \in {"Completed", "Failed"}
           ELSE \/ /\ invs'[i].state = "Dispatched"
                   /\ Holds(invs'[i].caller)
                   /\ invs'[i].got.error = None
                \/ /\ invs'[i].state = "Created"
                   /\ ~Holds(invs'[i].caller)
                   /\ invs'[i].got.error = "AttributeError"]_vars

C16_Witness ==
    \E i, j \in DOMAIN invs :
        /\ invs[i].state = "Completed"
        /\ invs[j].state = "Failed"

\* C17: in every state reached from empty scopes through prepare() and the
\* command wrappers, _has_redis_client is true exactly when _redis_client
\* returns a handle, which is then a client made by _connect_to_redis for that
\* scope and name; so every wrapper called after a prepare() that returned
\* normally finds a handle and dispatches to it.
C17_PresenceAgreesWithRead ==
    /\ \A h \in Handlers :
          /\ HasRedisClient(h) <=> RedisClient(h) # NoneHandle
          /\ HasRedisClient(h) =>
                RedisClient(h) \in ClientsOf(handler[h].app, handler[h].name)
          /\ Prepared(h) => RedisClient(h) # NoneHandle
    /\ \A i \in DOMAIN invs :
          Prepared(invs[i].caller) =>
              /\ invs[i].handle = RedisClient(invs[i].caller)
              /\ invs[i].state # "Created"

C17_Witness ==
    /\ \E i \in DOMAIN invs :
          /\ pc[invs[i].caller] = "ready"
          /\ invs[i].handle = RedisClient(invs[i].caller)
          /\ invs[i].handle # NoneHandle
    /\ \E g \in Handlers : ~HasRedisClient(g) /\ RedisClient(g) = NoneHandle

\* C18: no step of a command wrapper (the call, its completion, its failure,
\* or a call made while no handle is stored) changes what is stored on a
\* scope; the scope is written only by prepare(), which writes only the
\* attribute named by the handler's REDIS_CLIENT and leaves every attribute
\* under another name, and every other scope, as it was.
C18_OnlyPrepareWritesItsName ==
    [][ /\ invs' # invs => tinman' = tinman
        /\ tinman' # tinman =>
              \E h \in Handlers :
                  /\ PrepareStep(h)
                  /\ \A s \in Scopes :
                        \A n \in DOMAIN tinman[s] \cup DOMAIN tinman'[s] :
                            (s # handler[h].app \/ n # handler[h].name) =>
                                /\ n \in DOMAIN tinman[s]
                                /\ n \in DOMAIN tinman'[s]
                                /\ tinman'[s][n] = tinman[s][n] ]_vars

C18_Witness ==
    /\ \E s \in Scopes : DOMAIN tinman[s] = Names
    /\ \E i \in DOMAIN invs : invs[i].state = "Created"
    /\ \E i \in DOMAIN invs : invs[i].state \in {"Completed", "Failed"}

ClosersBetween(a, j) ==
    {e \in DOMAIN invs : /\ a < e /\ e < j
                         /\ invs[e].handle = invs[a].handle
                         /\ invs[e].cmd.op \in {"execute", "discard"}}

StoredNow == UNION { {tinman[s][n] : n \in DOMAIN tinman[s]} : s \in Scopes }

\* C15: every wrapper call reads the handle stored on the scope at that moment
\* and dispatches to it, whatever handle the same handler instance read
\* before; so once a stored handle has been replaced, no later call from any
\* handler instance hands a command to the old handle.
C15_ReadsStoredHandleEachCall ==
    [][ /\ \A h \in Handlers :
              WrapperStep(h) =>
                  LET i == Len(invs')
                      now == Get(tinman[handler[h].app], handler[h].name, NoneHandle)
                  IN /\ invs'[i].handle = now
                     /\ now # NoneHandle =>
                            transport'[now].wire = Append(transport[now].wire, i)
        /\ \A c \in DOMAIN transport :
              c \notin StoredNow => transport'[c] = transport[c] ]_vars

C15_Witness ==
    \E i, j \in DOMAIN invs :
        /\ i < j
        /\ invs[i].caller = invs[j].caller
        /\ invs[i].handle # NoneHandle
        /\ invs[j].handle # NoneHandle
        /\ invs[j].handle # invs[i].handle
        /\ seen[invs[j].caller] = invs[i].handle
        /\ invs[j].state = "Completed"
====
